---- MODULE Spec2Model ----
(***************************************************************************)
(* A model of netidx-dbus (src/src/main.rs): the bus name supervisor of    *)
(* main, the object tree builder Object::new, the property mirror          *)
(* Object::publish_properties, and the method proxy ProxiedMethod.          *)
(*                                                                          *)
(* Bus names, signatures and published paths are sequences (of characters   *)
(* and of labels), so that prefix tests and path construction are computed  *)
(* as the code computes them.                                               *)
(***************************************************************************)
EXTENDS Integers, Sequences, FiniteSets, TLC

\* ------------------------------------------------------------------ bounds

\* Successful tree builds (ProxiedBusName::new returning Ok) in one behaviour,
\* for the layout "named" and for the layouts with more mirrors or properties.
MaxBuilds == 2
MaxBuildsWide == 1
\* PropertiesChanged signals pending in one mirror's change stream, for the
\* layout "named" and for the other layouts.
MaxQueue == 1
MaxQueueWide == 2
\* NameOwnerChanged signals pending in the supervisor's stream.
MaxPending == 1

\* Containers nested in one another in a signature built from the grammar, and
\* the bytes of a signature taken from all strings over SigAlphabet.
MaxNest == 2
MaxSigLen == 5
\* Elements of an array read from the bus, and of an array a caller passes.
MaxItems == 2
\* Arguments of a method whose in-args are named.
MaxArgs == 3
MaxElems == 3

\* ------------------------------------------------------------- bus names

Foo == <<"F", "o", "o">>
Uniq == <<":", "1">>
Names == {Foo, Uniq}
\* A second well-known name, for the behaviours with two trees.
Bar == <<"B", "a", "r">>

\* n.starts_with(":")
StartsWithColon(n) == Len(n) > 0 /\ n[1] = ":"

\* opts.netidx_base, the default "/local/dbus", as its labels
NetidxBase == <<"local", "dbus">>

\* ------------------------------------------------------------ bus values

\* A bus value is a record tagged by its ArgType t: numbers carry n, strings s,
\* containers the sequence items of the values their iterator yields.
BByte(n) == [t |-> "Byte", n |-> n]
BInt16(n) == [t |-> "Int16", n |-> n]
BInt32(n) == [t |-> "Int32", n |-> n]
BStr(s) == [t |-> "String", s |-> s]
BVariant(items) == [t |-> "Variant", items |-> items]

\* A pub/sub value is a record tagged by its kind k.
VNull == [k |-> "Null"]
VTrue == [k |-> "True"]
VFalse == [k |-> "False"]
VU32(n) == [k |-> "U32", n |-> n]
VI32(n) == [k |-> "I32", n |-> n]
VI64(n) == [k |-> "I64", n |-> n]
VU64(n) == [k |-> "U64", n |-> n]
VF64(n) == [k |-> "F64", n |-> n]
VString(s) == [k |-> "String", s |-> s]
VError(s) == [k |-> "Error", s |-> s]
VBytes == [k |-> "Bytes"]
VArray(items) == [k |-> "Array", items |-> items]

\* `v.as_u64().unwrap() as u32` and `v.as_i64().unwrap() as i32`: the value read
\* is of a bus type of at most 32 bits (Byte, UInt16, UInt32; Int16, Int32), so
\* the widening to 64 bits and the cast back to 32 never truncate.
AsU32(n) == n
\* A cast that reinterprets the sign of what it reads.
AsI32_Abs(n) == IF n < 0 THEN -n ELSE n
AsI32(n) == n

RECURSIVE dbus_value_to_netidx_value(_)
\* A reading that keeps the array around the single value of a variant.
dbus_value_to_netidx_value_Boxed(b) ==
    IF b.t = "Variant" /\ Len(b.items) = 1
    THEN VArray(<<dbus_value_to_netidx_value(b.items[1])>>)
    ELSE IF b.t = "Variant" /\ Len(b.items) = 0 THEN VNull
    ELSE IF "items" \in DOMAIN b
    THEN VArray([j \in DOMAIN b.items |-> dbus_value_to_netidx_value(b.items[j])])
    ELSE IF b.t \in {"Byte", "UInt16", "UInt32"} THEN VU32(b.n)
    ELSE IF b.t \in {"Int16", "Int32"} THEN VI32(b.n)
    ELSE IF b.t = "Int64" THEN VI64(b.n)
    ELSE IF b.t = "UInt64" THEN VU64(b.n)
    ELSE IF b.t = "Double" THEN VF64(b.n)
    ELSE IF b.t = "UnixFd" THEN VString("<unix-fd>")
    ELSE IF b.t = "Boolean" THEN (IF b.n = 1 THEN VTrue ELSE VFalse)
    ELSE VString(b.s)
dbus_value_to_netidx_value(b) ==
    LET items == [j \in DOMAIN b.items |-> dbus_value_to_netidx_value(b.items[j])]
    IN  CASE b.t = "Byte" -> VU32(AsU32(b.n))
          [] b.t = "Int16" -> VI32(AsI32(b.n))
          [] b.t = "UInt16" -> VU32(AsU32(b.n))
          [] b.t = "Int32" -> VI32(AsI32(b.n))
          [] b.t = "UInt32" -> VU32(AsU32(b.n))
          [] b.t = "Int64" -> VI64(b.n)
          [] b.t = "UInt64" -> VU64(b.n)
          [] b.t = "Double" -> VF64(b.n)
          [] b.t = "UnixFd" -> VString("<unix-fd>")
          [] b.t = "Boolean" -> IF b.n = 1 THEN VTrue ELSE VFalse
          [] b.t = "Invalid" -> VError("invalid")
          [] b.t \in {"String", "ObjectPath", "Signature"} -> VString(b.s)
          [] b.t = "Variant" ->
                IF Len(items) = 0 THEN VNull
                ELSE IF Len(items) = 1 THEN items[1]
                ELSE VArray(items)
          [] b.t \in {"Array", "DictEntry", "Struct"} -> VArray(items)

\* ------------------------------------------------- the bus's object trees

\* What the services on the bus export is fixed in a behaviour and differs
\* between behaviours: shape names one of the layouts below.  Every object of a
\* layout exports the same interfaces.
\*   "flat":  one object "/", data interfaces I1 {P, Q} and I2 {R}
\*   "anon":  "/" with a child node that has no name (it inherits "/"), I1 {P}
\*   "named": "/" with a child node "a" that has methods but no properties
Shapes == {"flat", "anon", "named"}

PropertiesIface == "org.freedesktop.DBus.Properties"

\* The interfaces of a layout that carry properties, and what GetAll returns
\* the names of for each.
DataIfaces(sh) == IF sh = "flat" THEN {"I1", "I2"} ELSE {"I1"}
IfaceProps(sh, i) ==
    IF sh = "flat" THEN (IF i = "I1" THEN {"P", "Q"} ELSE {"R"}) ELSE {"P"}

\* Depth of the deepest object a tree is descended to.  An unnamed child has its
\* parent's object path, so its introspection names an unnamed child again: the
\* descent is cut at this depth, where the reply lists no child nodes.
MaxDepth == 1

None == [some |-> FALSE]
Some(x) == [some |-> TRUE, x |-> x]

\* The reply of Introspect for the object at depth d of layout sh: its
\* interfaces, its methods as <<interface, method>> in document order, and the
\* names of its child nodes.
Introspect(sh, d) ==
    [interfaces |->
        IF sh = "named" /\ d > 0 THEN {"I1"} ELSE {PropertiesIface} \cup DataIfaces(sh),
     methods |-> << <<"I1", "Add">> >>,
     nodes |-> IF sh = "flat" \/ d >= MaxDepth THEN <<>>
               ELSE IF sh = "anon" THEN <<None>> ELSE <<Some("a")>>]

\* ------------------------------------------------------- published paths

\* An object path is the sequence of its segments: <<>> is "/", <<"a">> is "/a".
RootPath == <<>>

\* base.append("interfaces").append(&i).append("properties").append(&name)
PropPath(base, i, name) == base \o <<"interfaces", i, "properties", name>>

\* base.append("interfaces").append(&change.interface_name).append(&name)
ChangedPropPath(base, i, name) == base \o <<"interfaces", i, name>>

\* base.append("interfaces").append(&i.name).append("methods"), then
\* base.append(&method.name) in ProxiedMethod::new
MethodPath(base, i, m) == base \o <<"interfaces", i, "methods", m>>

\* c.name.as_ref().map(|n| base.append(n)).unwrap_or_else(|| base.clone())
ChildBase(base, c) == IF c.some THEN Append(base, c.x) ELSE base

\* "/{n}" under the root, "{path}/{n}" elsewhere, the parent's path without a name
ChildPath(path, c) ==
    IF c.some
    THEN (IF path = RootPath THEN <<c.x>> ELSE Append(path, c.x))
    ELSE path

\* ------------------------------------------------------------ signatures

Ok(v) == [ok |-> TRUE, v |-> v]
Err(e) == [ok |-> FALSE, err |-> e]

\* One-character types with the array prefix among them.
Leaf_A ==
    [y |-> "Byte", b |-> "Bool", n |-> "Int16", q |-> "UInt16", i |-> "Int32",
     u |-> "UInt32", x |-> "Int64", t |-> "UInt64", d |-> "Double", s |-> "String",
     o |-> "ObjectPath", g |-> "Signature", v |-> "Variant", h |-> "UnixFd",
     a |-> "Variant"]

\* The one-character types of DbusType::from_bytes, by their first byte.
Leaf ==
    [y |-> "Byte", b |-> "Bool", n |-> "Int16", q |-> "UInt16", i |-> "Int32",
     u |-> "UInt32", x |-> "Int64", t |-> "UInt64", d |-> "Double", s |-> "String",
     o |-> "ObjectPath", g |-> "Signature", v |-> "Variant", h |-> "UnixFd"]

\* &s[n..]
Drop(s, n) == SubSeq(s, n + 1, Len(s))

\* DbusType::len: the bytes the printed type takes
RECURSIVE len(_)
len(ty) ==
    LET RECURSIVE Sum(_)
        Sum(elts) == IF elts = <<>> THEN 0 ELSE len(Head(elts)) + Sum(Tail(elts))
    IN  CASE ty.t = "Array" -> 1 + len(ty.elt)
          [] ty.t = "Struct" -> 2 + Sum(ty.elts)
          [] ty.t = "Dict" -> 2 + len(ty.key) + len(ty.value)
          [] OTHER -> 1

\* DbusType::from_bytes over the bytes of a signature.  A one-character type is
\* recognised by the first byte alone; the patterns of a dict entry and of a
\* struct bind the first and the last byte of the slice.
RECURSIVE from_bytes(_)
from_bytes(b) ==
    LET RECURSIVE Elts(_, _)
        Elts(s, elts) ==
            IF s = <<>> THEN Ok([t |-> "Struct", elts |-> elts])
            ELSE LET elt == from_bytes(s)
                 IN  IF elt.ok THEN Elts(Drop(s, len(elt.v)), Append(elts, elt.v))
                     ELSE elt
        s0 == SubSeq(b, 2, Len(b) - 1)
    IN  IF b = <<>> THEN Err("expected at least 1 character")
        ELSE IF b[1] \in DOMAIN Leaf THEN Ok([t |-> Leaf[b[1]]])
        ELSE IF b[1] = "a"
        THEN LET r == from_bytes(Tail(b))
             IN  IF r.ok THEN Ok([t |-> "Array", elt |-> r.v]) ELSE r
        ELSE IF b[1] = "{" /\ Len(b) >= 2 /\ b[Len(b)] = "}"
        THEN IF s0 = <<>> THEN Err("empty dict")
             ELSE LET key == from_bytes(s0)
                  IN  IF ~key.ok THEN key
                      ELSE LET s1 == Drop(s0, len(key.v))
                               value == from_bytes(s1)
                           IN  IF ~value.ok THEN value
                               ELSE IF Drop(s1, len(value.v)) # <<>>
                               THEN Err("dict must contain exactly two types")
                               ELSE Ok([t |-> "Dict", key |-> key.v, value |-> value.v])
        ELSE IF b[1] = "(" /\ Len(b) >= 2 /\ b[Len(b)] = ")"
        THEN IF s0 = <<>> THEN Err("empty struct type") ELSE Elts(s0, <<>>)
        ELSE Err("invalid dbus type")

\* DbusType::from_str
from_str(s) == from_bytes(s)

\* The byte Display writes for a one-character type.
LeafByte ==
    [Byte |-> "y", Bool |-> "b", Int16 |-> "n", UInt16 |-> "q", Int32 |-> "i",
     UInt32 |-> "u", Int64 |-> "x", UInt64 |-> "t", Double |-> "d", String |-> "s",
     ObjectPath |-> "o", Signature |-> "g", Variant |-> "v", UnixFd |-> "h"]

\* Display for DbusType: the bytes fmt writes, which to_string collects
RECURSIVE fmt(_)
fmt(ty) ==
    LET RECURSIVE Each(_)
        Each(elts) == IF elts = <<>> THEN <<>> ELSE fmt(Head(elts)) \o Each(Tail(elts))
    IN  CASE ty.t = "Array" -> <<"a">> \o fmt(ty.elt)
          [] ty.t = "Dict" -> <<"{">> \o fmt(ty.key) \o fmt(ty.value) \o <<"}">>
          [] ty.t = "Struct" -> <<"(">> \o Each(ty.elts) \o <<")">>
          [] OTHER -> <<LeafByte[ty.t]>>

\* ---------------------------------------------- pub/sub values to the bus

\* v.clone().cast_to::<i32>() for the values a caller passes here: a number is
\* taken as it is, a string that does not spell a number cannot be cast.
CastToI32(v) == IF v.k = "I32" THEN Ok(v.n) ELSE Err("can't cast")

\* v.clone().cast_to()? for the other kinds, for the values given here: a value
\* of the kind asked for is taken as it is; a string that does not spell a
\* number is no number, and a number is no array.
CastNum(v, kind) == IF v.k = kind THEN Ok(v.n) ELSE Err("can't cast")
CastToBool(v) ==
    IF v.k = "True" THEN Ok(1) ELSE IF v.k = "False" THEN Ok(0) ELSE Err("can't cast")
\* cast_to::<String>(): a string as it is, a number spelled out
CastToString(v) ==
    IF v.k = "String" THEN Ok(v.s)
    ELSE IF v.k \in {"U32", "I32", "I64", "U64", "F64"} THEN Ok(ToString(v.n))
    ELSE Err("can't cast")
CastToVec(v) == IF v.k = "Array" THEN Ok(v.items) ELSE Err("can't cast")

\* cast_to::<Vec<(Value, Value)>>(): an array whose every element is an array
\* of two
CastToPairs(v) ==
    IF v.k = "Array" /\ \A j \in DOMAIN v.items :
                            v.items[j].k = "Array" /\ Len(v.items[j].items) = 2
    THEN Ok([j \in DOMAIN v.items |-> v.items[j].items])
    ELSE Err("can't cast")

\* strings::Path::new and strings::Signature::new accept, of the strings here,
\* these.
ObjectPaths == {"/a"}
SignatureStrings == {"i"}

\* .collect::<Result<Vec<_>>>(): the first error, or every element
RECURSIVE Collect(_)
Collect(rs) ==
    IF rs = <<>> THEN Ok(<<>>)
    ELSE IF ~Head(rs).ok THEN Head(rs)
    ELSE LET rest == Collect(Tail(rs))
         IN  IF rest.ok THEN Ok(<<Head(rs).v>> \o rest.v) ELSE rest

\* .zip(inner.iter()): as many pairs as the shorter of the two has elements
Zip(vs, inner) ==
    [j \in 1..(IF Len(vs) < Len(inner) THEN Len(vs) ELSE Len(inner)) |-> <<vs[j], inner[j]>>]

\* The MessageItem a number of a kind becomes.
Num(t, c) == IF c.ok THEN Ok([t |-> t, n |-> c.v]) ELSE c
Str(t, c) == IF c.ok THEN Ok([t |-> t, s |-> c.v]) ELSE c

\* netidx_value_to_dbus_value.  A MessageItem::Dict is, read back, an array of
\* dict entries, and its signature is that of an array: MessageItemArray::new
\* refuses it as the element of an array of dict entries.
RECURSIVE netidx_value_to_dbus_value(_, _)
netidx_value_to_dbus_value(v, typ) ==
    CASE typ.t = "Bool" -> Num("Boolean", CastToBool(v))
      [] typ.t = "Byte" -> Num("Byte", CastNum(v, "U32"))
      [] typ.t = "Int16" -> Num("Int16", CastNum(v, "I32"))
      [] typ.t = "UInt16" -> Num("UInt16", CastNum(v, "U32"))
      [] typ.t = "Int32" -> Num("Int32", CastToI32(v))
      [] typ.t = "UInt32" -> Num("UInt32", CastNum(v, "U32"))
      [] typ.t = "Int64" -> Num("Int64", CastNum(v, "I64"))
      [] typ.t = "UInt64" -> Num("UInt64", CastNum(v, "U64"))
      [] typ.t = "Double" -> Num("Double", CastNum(v, "F64"))
      [] typ.t = "Signature" ->
            LET c == CastToString(v)
            IN  IF c.ok /\ c.v \notin SignatureStrings THEN Err("invalid signature")
                ELSE Str("Signature", c)
      [] typ.t = "ObjectPath" ->
            LET c == CastToString(v)
            IN  IF c.ok /\ c.v \notin ObjectPaths THEN Err("invalid object path")
                ELSE Str("ObjectPath", c)
      [] typ.t = "String" -> Str("String", CastToString(v))
      [] typ.t = "UnixFd" -> Err("can't send unix fds over netidx")
      [] typ.t = "Array" ->
            LET c == CastToVec(v)
                elts == Collect([j \in DOMAIN c.v |->
                                   netidx_value_to_dbus_value(c.v[j], typ.elt)])
            IN  IF ~c.ok THEN c
                ELSE IF ~elts.ok THEN elts
                ELSE IF typ.elt.t = "Dict" /\ elts.v # <<>>
                THEN Err("DifferentElementTypes")
                ELSE Ok([t |-> "Array", items |-> elts.v])
      [] typ.t = "Dict" ->
            LET c == CastToPairs(v)
                entry(kv) ==
                    LET k == netidx_value_to_dbus_value(kv[1], typ.key)
                        x == netidx_value_to_dbus_value(kv[2], typ.value)
                    IN  IF ~k.ok THEN k
                        ELSE IF ~x.ok THEN x
                        ELSE Ok([t |-> "DictEntry", items |-> <<k.v, x.v>>])
                elts == Collect([j \in DOMAIN c.v |-> entry(c.v[j])])
            IN  IF ~c.ok THEN c
                ELSE IF ~elts.ok THEN elts
                ELSE Ok([t |-> "Array", items |-> elts.v])
      [] typ.t = "Struct" ->
            LET c == CastToVec(v)
                zipped == Zip(c.v, typ.elts)
                elts == Collect([j \in DOMAIN zipped |->
                                   netidx_value_to_dbus_value(zipped[j][1], zipped[j][2])])
            IN  IF ~c.ok THEN c
                ELSE IF ~elts.ok THEN elts
                ELSE IF Len(elts.v) # Len(typ.elts) THEN Err("struct elements mismatch")
                ELSE Ok([t |-> "Struct", items |-> elts.v])
      [] typ.t = "Variant" ->
            CASE v.k = "I32" -> Ok(BVariant(<<BInt32(v.n)>>))
              [] v.k = "U32" -> Ok(BVariant(<<[t |-> "UInt32", n |-> v.n]>>))
              [] v.k = "I64" -> Ok(BVariant(<<[t |-> "Int64", n |-> v.n]>>))
              [] v.k = "U64" -> Ok(BVariant(<<[t |-> "UInt64", n |-> v.n]>>))
              [] v.k = "F64" -> Ok(BVariant(<<[t |-> "Double", n |-> v.n]>>))
              [] v.k = "True" -> Ok(BVariant(<<[t |-> "Boolean", n |-> 1]>>))
              [] v.k \in {"False", "Error", "Null"} ->
                    Ok(BVariant(<<[t |-> "Boolean", n |-> 0]>>))
              [] v.k = "String" -> Ok(BVariant(<<BStr(v.s)>>))
              [] v.k = "Bytes" -> Err("can't send raw bytes to dbus")
              [] v.k = "Array" ->
                    LET elts == Collect([j \in DOMAIN v.items |->
                                   netidx_value_to_dbus_value(v.items[j], [t |-> "Variant"])])
                    IN  IF ~elts.ok THEN elts
                        ELSE Ok(BVariant(<<[t |-> "Array", items |-> elts.v]>>))

\* ---------------------------------------------------------- method proxy

\* An argument of an introspected method: xml::Arg
Arg(name, typ, direction) == [name |-> name, typ |-> typ, direction |-> direction]

\* DbusMethodArgSpec::try_from
try_from(value) ==
    LET typ == from_str(value.typ)
    IN  IF ~typ.ok THEN typ
        ELSE IF value.direction = None \/ value.direction = Some("in")
        THEN Ok([name |-> value.name, typ |-> typ.v, direction |-> "In"])
        ELSE IF value.direction = Some("out")
        THEN Ok([name |-> value.name, typ |-> typ.v, direction |-> "Out"])
        ELSE Err("invalid arg direction")

\* .map(DbusMethodArgSpec::try_from).collect::<Result<Vec<_>>>(): the first
\* error, or every spec
RECURSIVE TryFromAll(_)
TryFromAll(xargs) ==
    IF xargs = <<>> THEN Ok(<<>>)
    ELSE LET a == try_from(Head(xargs))
         IN  IF ~a.ok THEN a
             ELSE LET rest == TryFromAll(Tail(xargs))
                  IN  IF rest.ok THEN Ok(<<a.v>> \o rest.v) ELSE rest

\* A partition that sends every argument to arg_spec.
IsInArg_All(a) == TRUE

\* The predicate of .partition(...): the specs that go to arg_spec.
IsInArg(a) == a.direction = "In"

\* A counter that is never advanced.
Anon_Same(nargs) == "anon0"

\* format!("anon{}", nargs)
Anon(nargs) == "anon" \o (CASE nargs = 0 -> "0" [] nargs = 1 -> "1" [] nargs = 2 -> "2"
                            [] OTHER -> "3")

\* The naming loop over arg_spec: an argument without a name becomes anon<k>,
\* and a name already used gets '_' appended until it is new.
RECURSIVE NameArgs(_, _, _, _)
NameArgs(todo, done, uargs, nargs) ==
    IF todo = <<>> THEN done
    ELSE LET a == Head(todo)
             n == IF a.name.some THEN a.name.x ELSE Anon(nargs)
             nargs1 == IF a.name.some THEN nargs ELSE nargs + 1
         IN  IF n \in uargs
             THEN NameArgs(<<[a EXCEPT !.name = Some(n \o "_")]>> \o Tail(todo),
                           done, uargs, nargs1)
             ELSE NameArgs(Tail(todo), Append(done, [a EXCEPT !.name = Some(n)]),
                           uargs \cup {n}, nargs1)

\* The Spec that ProxiedMethod::new hands to the procedure's closure.
ProxiedMethodNew(xargs) ==
    LET specs == TryFromAll(xargs)
    IN  IF ~specs.ok THEN specs
        ELSE Ok([arg_spec |-> NameArgs(SelectSeq(specs.v, IsInArg), <<>>, {}, 0),
                 ret_spec |-> SelectSeq(specs.v, LAMBDA a : ~IsInArg(a))])

\* An extraction that takes a name without a value for a name not passed.
Extract_NoEmpty(vals, name) ==
    IF name \notin DOMAIN vals \/ vals[name] = <<>> THEN Err("missing argument")
    ELSE Ok(vals[name][Len(vals[name])])

\* vals.remove(name).ok_or_else(missing)?.pop().ok_or_else(empty)?: the last
\* value passed under the name
Extract(vals, name) ==
    IF name \notin DOMAIN vals THEN Err("missing argument")
    ELSE IF vals[name] = <<>> THEN Err("empty argument")
    ELSE Ok(vals[name][Len(vals[name])])

\* DbusMethodArgs::new: the arguments in the order of sig, up to the first that
\* fails.  Yields the elements and the arguments left in vals.
RECURSIVE DbusMethodArgsNew(_, _)
DbusMethodArgsNew(sig, vals) ==
    IF sig = <<>> THEN [ok |-> TRUE, v |-> <<>>, left |-> DOMAIN vals]
    ELSE LET a == Head(sig)
             v == Extract(vals, a.name.x)
             e == IF v.ok THEN netidx_value_to_dbus_value(v.v, a.typ) ELSE v
             rest == DbusMethodArgsNew(Tail(sig),
                        [n \in DOMAIN vals \ {a.name.x} |-> vals[n]])
         IN  IF ~e.ok THEN e
             ELSE IF ~rest.ok THEN rest
             ELSE [ok |-> TRUE, v |-> <<e.v>> \o rest.v, left |-> rest.left]

\* DbusMethodRet::read: no argument in the reply is null, one is its value, more
\* are an array.
DbusMethodRet(items) ==
    LET elts == [j \in DOMAIN items |-> dbus_value_to_netidx_value(items[j])]
    IN  IF Len(elts) = 0 THEN VNull
        ELSE IF Len(elts) = 1 THEN elts[1]
        ELSE VArray(elts)

\* ------------------------------------------------------------------ state

VARIABLES
    shape,      \* the layout the bus's services export
    owned,      \* the bus names that have an owner
    pc,         \* main: "start" (match installed, before ListNames) or "loop"
    signals,    \* main's stream of driver signals, oldest first
    names,      \* main's map from bus name to ProxiedBusName (the build's number)
    builds,     \* the bus name of each successful build, by number
    stopped,    \* the builds whose ProxiedBusName was dropped (_stop fired)
    mirrors,    \* the spawned publish_properties tasks, by <<build, depth>>
    pubs,       \* the live publications of the publisher
    observed,   \* history: names seen owned and not since seen to vanish
    failed,     \* history: names whose latest build failed
    removed,    \* history: well-known names main saw a signal with no new owner for
    lastSig,    \* history: the signal main handled last
    cur,        \* the values the properties have on the bus, where they are followed
    method,     \* the arguments of the bus method a procedure is made for
    proc,       \* the procedure's Spec once ProxiedMethod::new has run
    args,       \* the arguments of the procedure's latest invocation
    dargs,      \* the body of the bus call that invocation issued, if it did
    reply,      \* history: what the bus answered to that call
    ret,        \* the value the invocation returned
    signature,  \* the bytes of a signature given to DbusType::from_str
    parsed,     \* what from_str returned for it
    printed,    \* what printing the parsed type wrote
    busv,       \* a value read from the bus, with the type it has
    decoded,    \* what dbus_value_to_netidx_value made of it
    encoded,    \* what netidx_value_to_dbus_value made of that for the type
    again,      \* what dbus_value_to_netidx_value made of the encoded value
    faults,     \* what goes wrong while one object tree is built
    built       \* what Object::new returned for the root of that tree

busVars == <<shape, owned, pc, signals, names, builds, stopped, mirrors, pubs,
             observed, failed, removed, lastSig, cur>>
procVars == <<method, proc, args, dargs, reply, ret>>
codecVars == <<signature, parsed, printed, busv, decoded, encoded, again>>
treeVars == <<faults, built>>
vars == <<busVars, procVars, codecVars, treeVars>>

Depths == 0..MaxDepth
BuildCap == IF shape = "named" THEN MaxBuilds ELSE MaxBuildsWide
QueueCap == IF shape = "named" THEN MaxQueue ELSE MaxQueueWide
NoSig == [member |-> "none"]

\* ------------------------------------------------------------- publisher

Paths(ps) == {r.path : r \in ps}

\* A publisher that takes a path that is published already.
CanPublish_Always(ps, path) == TRUE

\* Publisher::publish and rpc::Proc::new fail for a path that is published.
CanPublish(ps, path) == path \notin Paths(ps)

PropPub(m, i, name, path, val) ==
    [owner |-> m, kind |-> "prop", iface |-> i, member |-> name, path |-> path, val |-> val]

MethodPub(m, i, name, path) ==
    [owner |-> m, kind |-> "method", iface |-> i, member |-> name, path |-> path,
     val |-> VNull]

\* ----------------------------------------------------- object tree builder

\* The property mirror of an object as task::spawn leaves it: not yet polled.
NewMirror(n, base, path) ==
    [dest |-> n, base |-> base, path |-> path, pc |-> "start", match |-> FALSE,
     queue |-> <<>>, ended |-> FALSE, snap |-> {},
     got |-> [i \in DataIfaces(shape) |-> None],
     ga |-> [i \in DataIfaces(shape) |-> "todo"],
     rem |-> [i \in DataIfaces(shape) |-> {}],
     ifaces |-> {}]

\* Object::publish_methods: a method whose procedure cannot be registered is
\* logged and skipped.
RECURSIVE publish_methods(_, _, _, _)
publish_methods(ps, m, base, meths) ==
    IF meths = <<>> THEN ps
    ELSE LET i == Head(meths)[1]
             name == Head(meths)[2]
             path == MethodPath(base, i, name)
             ps1 == IF CanPublish(ps, path) THEN ps \cup {MethodPub(m, i, name, path)}
                    ELSE ps
         IN  publish_methods(ps1, m, base, Tail(meths))

\* Object::new for the object at depth d of build b, and its descent.  ok[d]
\* tells whether the object's introspection succeeds; a child that fails is
\* logged and skipped.  Yields the publications and the mirrors afterwards.
RECURSIVE ObjectNew(_, _, _, _, _, _, _, _)
ObjectNew(d, n, b, base, path, ok, ps, ms) ==
    IF ~ok[d] THEN [pubs |-> ps, mirrors |-> ms]
    ELSE LET node == Introspect(shape, d)
             ms1 == IF PropertiesIface \in node.interfaces
                    THEN ms @@ (<<b, d>> :> NewMirror(n, base, path))
                    ELSE ms
             ps1 == publish_methods(ps, <<b, d>>, base, node.methods)
         IN  IF node.nodes = <<>> THEN [pubs |-> ps1, mirrors |-> ms1]
             ELSE ObjectNew(d + 1, n, b, ChildBase(base, node.nodes[1]),
                            ChildPath(path, node.nodes[1]), ok, ps1, ms1)

\* A drop that leaves the procedures registered.
DropMethods_Keep(ps, b) == ps

\* Dropping the ProxiedBusName of build b: its objects' method procedures go
\* with _root, and dropping _stop resolves the receiver every mirror shares.
DropMethods(ps, b) == {r \in ps : ~(r.kind = "method" /\ r.owner[1] = b)}

\* ------------------------------------------------------------ supervisor

\* A name that is not a connection's unique name (for the history variables).
WellKnown(n) == n[1] # ":"

\* .filter(|n| !n.starts_with(":")) over the reply of ListNames
Listed(ns) == {n \in ns : ~StartsWithColon(n)}

\* The test without the look at the name's first character.
ShouldProxy_NoColon(up) == ~up.old

\* else if up.old_owner.is_none() && !up.name.starts_with(":")
ShouldProxy(up) == ~up.old /\ ~StartsWithColon(up.name)

\* The startup listing and the concurrent builds of the listed names; a name
\* whose root introspection fails gets no entry.
Startup ==
    /\ pc = "start"
    /\ LET listed == Listed(owned)
       IN  \E oks \in [listed -> [Depths -> BOOLEAN]] :
             LET good == {n \in listed : oks[n][0]}
             IN  /\ Len(builds) + Cardinality(good) <= BuildCap
                 /\ \E order \in [1..Cardinality(good) -> good] :
                      /\ \A x, y \in DOMAIN order : order[x] = order[y] => x = y
                      /\ LET nb == Len(builds)
                             RECURSIVE Go(_, _, _)
                             Go(k, ps, ms) ==
                                 IF k > Cardinality(good) THEN [pubs |-> ps, mirrors |-> ms]
                                 ELSE LET r == ObjectNew(0, order[k], nb + k,
                                                         Append(NetidxBase, order[k]),
                                                         RootPath, oks[order[k]], ps, ms)
                                      IN  Go(k + 1, r.pubs, r.mirrors)
                             r == Go(1, pubs, mirrors)
                         IN  /\ pubs' = r.pubs
                             /\ mirrors' = r.mirrors
                             /\ builds' = builds \o order
                             /\ names' = [n \in good |->
                                    nb + CHOOSE k \in DOMAIN order : order[k] = n]
                 /\ observed' = {n \in owned : WellKnown(n)}
                 /\ failed' = listed \ good
    /\ pc' = "loop"
    /\ UNCHANGED <<treeVars, codecVars, procVars, cur,
                   shape, owned, signals, stopped, removed,
                   lastSig>>

\* A handler that empties the map.
RemoveName_All(up) ==
    /\ names' = <<>>
    /\ pubs' = {r \in pubs : ~(r.kind = "method" /\ r.owner[1] \in {names[n] : n \in DOMAIN names})}
    /\ stopped' = stopped \cup {names[n] : n \in DOMAIN names}
    /\ UNCHANGED <<mirrors, builds, failed>>

\* A handler that keeps the name's entry.
RemoveName_Keep(up) == UNCHANGED <<names, pubs, stopped, mirrors, builds, failed>>

\* names.remove(up.name)
RemoveName(up) ==
    /\ names' = [n \in DOMAIN names \ {up.name} |-> names[n]]
    /\ IF up.name \in DOMAIN names
       THEN /\ pubs' = DropMethods(pubs, names[up.name])
            /\ stopped' = stopped \cup {names[up.name]}
       ELSE UNCHANGED <<pubs, stopped>>
    /\ UNCHANGED <<mirrors, builds, failed>>

\* start_proxying(up.name), and names.insert(up.name, o) when it yields a tree:
\* the insert drops the ProxiedBusName the name had.
ProxyName(up) ==
    \E ok \in [Depths -> BOOLEAN] :
      IF ok[0]
      THEN /\ Len(builds) < BuildCap
           /\ LET b == Len(builds) + 1
                  r == ObjectNew(0, up.name, b, Append(NetidxBase, up.name),
                                 RootPath, ok, pubs, mirrors)
              IN  /\ mirrors' = r.mirrors
                  /\ builds' = Append(builds, up.name)
                  /\ names' = [n \in DOMAIN names \cup {up.name} |->
                                 IF n = up.name THEN b ELSE names[n]]
                  /\ IF up.name \in DOMAIN names
                     THEN /\ pubs' = DropMethods(r.pubs, names[up.name])
                          /\ stopped' = stopped \cup {names[up.name]}
                     ELSE /\ pubs' = r.pubs
                          /\ UNCHANGED stopped
           /\ failed' = failed \ {up.name}
      ELSE /\ failed' = failed \cup {up.name}
           /\ UNCHANGED <<names, builds, stopped, mirrors, pubs>>

\* What a signal tells an observer of the stream, whatever main does with it.
Observe(up) ==
    /\ lastSig' = up
    /\ IF up.member # "NameOwnerChanged" THEN UNCHANGED <<observed, removed>>
       ELSE IF ~up.new
       THEN /\ observed' = observed \ {up.name}
            /\ removed' = removed \cup {n \in {up.name} : WellKnown(n)}
       ELSE /\ observed' = observed \cup {n \in {up.name} : ~up.old /\ WellKnown(n)}
            /\ UNCHANGED removed

\* One iteration of main's loop over the signal stream.
HandleSignal ==
    /\ pc = "loop"
    /\ signals # <<>>
    /\ LET up == Head(signals)
       IN  /\ Observe(up)
           /\ IF up.member # "NameOwnerChanged"
              THEN UNCHANGED <<names, builds, stopped, mirrors, pubs, failed>>
              ELSE IF ~up.new THEN RemoveName(up)
              ELSE IF ShouldProxy(up) THEN ProxyName(up)
              ELSE UNCHANGED <<names, builds, stopped, mirrors, pubs, failed>>
    /\ signals' = Tail(signals)
    /\ UNCHANGED <<treeVars, codecVars, procVars, cur,
                   shape, owned, pc>>

\* ------------------------------------------------------------------- bus

NameOwnerChanged(n, old, new) ==
    [member |-> "NameOwnerChanged", name |-> n, old |-> old, new |-> new]

EmitSignal(sig) ==
    /\ Len(signals) < MaxPending
    /\ signals' = Append(signals, sig)

\* A name gets its first owner, loses its last one, or passes between owners;
\* the driver also sends signals other than NameOwnerChanged.
BusAcquire(n) ==
    /\ n \notin owned
    /\ EmitSignal(NameOwnerChanged(n, FALSE, TRUE))
    /\ owned' = owned \cup {n}
    /\ UNCHANGED <<treeVars, codecVars, procVars, cur,
                   shape, pc, names, builds, stopped, mirrors, pubs, observed,
                   failed, removed, lastSig>>

BusRelease(n) ==
    /\ n \in owned
    /\ EmitSignal(NameOwnerChanged(n, TRUE, FALSE))
    /\ owned' = owned \ {n}
    /\ UNCHANGED <<treeVars, codecVars, procVars, cur,
                   shape, pc, names, builds, stopped, mirrors, pubs, observed,
                   failed, removed, lastSig>>

BusTransfer(n) ==
    /\ n \in owned
    /\ ~StartsWithColon(n)
    /\ EmitSignal(NameOwnerChanged(n, TRUE, TRUE))
    /\ UNCHANGED <<treeVars, codecVars, procVars, cur,
                   shape, owned, pc, names, builds, stopped, mirrors, pubs,
                   observed, failed, removed, lastSig>>

BusOtherSignal ==
    /\ EmitSignal([member |-> "NameAcquired"])
    /\ UNCHANGED <<treeVars, codecVars, procVars, cur,
                   shape, owned, pc, names, builds, stopped, mirrors, pubs,
                   observed, failed, removed, lastSig>>

\* The values a property takes on the bus: GetAll and PropertiesChanged carry
\* each as a variant.
BusVals == {BVariant(<<BStr("hello")>>), BVariant(<<BByte(255)>>)}

\* The PropertiesChanged signals an object may send for interface i: at most one
\* changed property and at most one invalidated one, not both empty.
Changes(i) ==
    LET props == IfaceProps(shape, i)
        maps == {<<>>} \cup UNION {[{p} -> BusVals] : p \in props}
        invs == {{}} \cup {{p} : p \in props}
    IN  {[iface |-> i, changed |-> c, inv |-> s] :
            <<c, s>> \in {x \in maps \X invs : x[1] # <<>> \/ x[2] # {}}}

\* The mirrors whose match rule (sender n, the object path) selects a signal,
\* and whose stream still has its sender.
Matching(n, path) ==
    {m \in DOMAIN mirrors :
        /\ mirrors[m].match
        /\ ~mirrors[m].ended
        /\ mirrors[m].pc # "done"
        /\ mirrors[m].dest = n
        /\ mirrors[m].path = path}

\* The values of the properties after the signal ev: a changed property has
\* the signal's value, a property that is only invalidated has a value the
\* signal does not tell.
CurAfter(c, ev) ==
    LET untold == ev.inv \ DOMAIN ev.changed
    IN  {[i \in DOMAIN c |->
            [name \in DOMAIN c[i] |->
               IF i = ev.iface /\ name \in DOMAIN ev.changed THEN ev.changed[name]
               ELSE IF i = ev.iface /\ name \in untold THEN ch[name]
               ELSE c[i][name]]] : ch \in [untold -> BusVals]}

\* The owner of n sends PropertiesChanged from the object at path.
BusPropertiesChanged(n, path, ev) ==
    /\ n \in owned
    /\ Matching(n, path) # {}
    /\ \A m \in Matching(n, path) : Len(mirrors[m].queue) < QueueCap
    /\ mirrors' = [m \in DOMAIN mirrors |->
                     IF m \in Matching(n, path)
                     THEN [mirrors[m] EXCEPT !.queue = Append(@, ev)]
                     ELSE mirrors[m]]
    /\ IF cur.some THEN \E d \in CurAfter(cur.x, ev) : cur' = Some(d) ELSE UNCHANGED cur
    /\ UNCHANGED <<treeVars, codecVars, procVars, shape, owned, pc, signals, names,
                   builds, stopped, pubs, observed, failed, removed, lastSig>>

\* The sender of a mirror's stream goes away: the stream yields what it still
\* holds and then ends.
StreamEnd(m) ==
    /\ mirrors[m].match
    /\ mirrors[m].pc # "done"
    /\ ~mirrors[m].ended
    /\ mirrors' = [mirrors EXCEPT ![m].ended = TRUE]
    /\ UNCHANGED <<treeVars, codecVars, procVars, cur,
                   shape, owned, pc, signals, names, builds, stopped, pubs,
                   observed, failed, removed, lastSig>>

\* -------------------------------------------------------- property mirror

Held(ps, m) == {r \in ps : r.owner = m}
HeldOf(ps, m, i) == {r \in ps : r.owner = m /\ r.iface = i /\ r.kind = "prop"}

\* The field ga records what the snapshot did for each interface; it is history
\* and is forgotten once the mirror handles a change or ends.  The field snap
\* keeps the interfaces whose snapshot succeeded.
Past(mr) == [mr EXCEPT !.ga = [i \in DOMAIN mr.ga |-> "past"]]

\* add_match(...).await?.stream(): the mirror ends with the error if the match
\* cannot be installed.
MirrorAddMatch(m) ==
    /\ mirrors[m].pc = "start"
    /\ \/ mirrors' = [mirrors EXCEPT ![m].pc = "getall", ![m].match = TRUE]
       \/ mirrors' = [mirrors EXCEPT ![m] = [Past(@) EXCEPT !.pc = "done"]]
    /\ UNCHANGED <<treeVars, codecVars, procVars, cur,
                   shape, owned, pc, signals, names, builds, stopped,
                   pubs, observed, failed, removed, lastSig>>

\* A join that forgets the signals that came while the snapshot was taken.
JoinAll_Flush(mr) ==
    IF \A i \in DOMAIN mr.ga : mr.ga[i] \in {"ok", "buserr", "puberr"}
    THEN [mr EXCEPT !.pc = "loop", !.ifaces = {i \in DOMAIN mr.ga : mr.ga[i] = "ok"},
                    !.snap = {i \in DOMAIN mr.ga : mr.ga[i] = "ok"}, !.queue = <<>>]
    ELSE mr

\* A join that gives the mirror up when the future of an interface fails.
JoinAll_Strict(mr) ==
    IF \A i \in DOMAIN mr.ga : mr.ga[i] \in {"ok", "buserr", "puberr"}
    THEN IF \A i \in DOMAIN mr.ga : mr.ga[i] = "ok"
         THEN [mr EXCEPT !.pc = "loop", !.ifaces = DOMAIN mr.ga]
         ELSE [mr EXCEPT !.pc = "done"]
    ELSE mr

\* The end of join_all: the interfaces whose future yielded Ok make the map
\* properties, and the mirror enters its loop.
JoinAll(mr) ==
    IF \A i \in DOMAIN mr.ga : mr.ga[i] \in {"ok", "buserr", "puberr"}
    THEN [mr EXCEPT !.pc = "loop", !.ifaces = {i \in DOMAIN mr.ga : mr.ga[i] = "ok"},
                    !.snap = {i \in DOMAIN mr.ga : mr.ga[i] = "ok"}]
    ELSE mr

\* The reply of proxy.get_all(&i): an error ends the interface's future.  Where
\* the values on the bus are followed, got keeps those of the reply.
MirrorGetAll(m, i) ==
    /\ mirrors[m].pc = "getall"
    /\ mirrors[m].ga[i] = "todo"
    /\ \/ mirrors' = [mirrors EXCEPT ![m] =
              JoinAll([@ EXCEPT !.ga[i] = "pub", !.rem[i] = IfaceProps(shape, i),
                                !.got[i] = IF cur.some THEN Some(cur.x[i]) ELSE None])]
       \/ mirrors' = [mirrors EXCEPT ![m] = JoinAll([@ EXCEPT !.ga[i] = "buserr"])]
    /\ UNCHANGED <<treeVars, codecVars, procVars, cur,
                   shape, owned, pc, signals, names, builds, stopped,
                   pubs, observed, failed, removed, lastSig>>

\* One (name, value) pair of the reply: publisher.publish(path, value)?, whose
\* error ends the interface's future and drops the handles collected for it.
MirrorPublish(m, i, name) ==
    /\ mirrors[m].pc = "getall"
    /\ mirrors[m].ga[i] = "pub"
    /\ name \in mirrors[m].rem[i]
    /\ \E value \in IF mirrors[m].got[i].some THEN {mirrors[m].got[i].x[name]} ELSE BusVals :
         LET path == PropPath(mirrors[m].base, i, name)
             left == mirrors[m].rem[i] \ {name}
         IN  IF CanPublish(pubs, path)
             THEN /\ pubs' = pubs \cup
                        {PropPub(m, i, name, path, dbus_value_to_netidx_value(value))}
                  /\ mirrors' = [mirrors EXCEPT ![m] =
                        JoinAll([@ EXCEPT !.rem[i] = left,
                                          !.ga[i] = IF left = {} THEN "ok" ELSE "pub"])]
             ELSE /\ pubs' = pubs \ HeldOf(pubs, m, i)
                  /\ mirrors' = [mirrors EXCEPT ![m] =
                        JoinAll([@ EXCEPT !.rem[i] = {}, !.ga[i] = "puberr"])]
    /\ UNCHANGED <<treeVars, codecVars, procVars, cur,
                   shape, owned, pc, signals, names, builds, stopped,
                   observed, failed, removed, lastSig>>

\* A stream that yields the newest pending signal first.
NextEvent_Newest(q) == q[Len(q)]

\* changes.select_next_some(): the oldest pending signal
NextEvent(q) == Head(q)

\* select_biased!: the change stream is polled first, stop second; a future
\* that is terminated is passed over, and the complete branch runs when both
\* are.  select_next_some() is terminated once the stream has ended and
\* nothing is left in it; the shared stop is terminated only after it has
\* yielded, and the branch it yields to leaves the loop.
SelectBiased(q, ended, stop) ==
    LET terminated == [changes |-> ended /\ q = <<>>, stop |-> FALSE]
    IN  IF q # <<>> THEN "change"
        ELSE IF ~terminated.stop /\ stop THEN "stop"
        ELSE IF terminated.changes /\ terminated.stop THEN "complete"
        ELSE "pending"

\* The publications after the body of the change branch, or an error.
ApplyChange(ps, m, base, ev) ==
    LET ps1 == {r \in ps : ~(r \in HeldOf(ps, m, ev.iface) /\ r.member \in ev.inv)}
        have == {r.member : r \in HeldOf(ps1, m, ev.iface)}
        fresh == DOMAIN ev.changed \ have
        upd(r) == IF r \in HeldOf(ps1, m, ev.iface) /\ r.member \in DOMAIN ev.changed
                  THEN [r EXCEPT !.val = dbus_value_to_netidx_value(ev.changed[r.member])]
                  ELSE r
    IN  IF \A name \in fresh : CanPublish(ps1, ChangedPropPath(base, ev.iface, name))
        THEN [ok |-> TRUE,
              pubs |-> {upd(r) : r \in ps1} \cup
                  {PropPub(m, ev.iface, name, ChangedPropPath(base, ev.iface, name),
                           dbus_value_to_netidx_value(ev.changed[name])) : name \in fresh}]
        ELSE [ok |-> FALSE, pubs |-> ps]

\* The change branch of the loop and the batch's commit.  A publish that fails
\* returns the error out of publish_properties: the task ends there, its
\* handles dropped, cleanup not run.
MirrorChange(m) ==
    /\ mirrors[m].pc = "loop"
    /\ SelectBiased(mirrors[m].queue, mirrors[m].ended, m[1] \in stopped) = "change"
    /\ LET mr == Past(mirrors[m])
           ev == NextEvent(mr.queue)
           r == ApplyChange(pubs, m, mr.base, ev)
       IN  IF ev.iface \notin mr.ifaces
           THEN /\ mirrors' = [mirrors EXCEPT ![m] = [mr EXCEPT !.queue = Tail(@)]]
                /\ UNCHANGED pubs
           ELSE IF r.ok
           THEN /\ pubs' = r.pubs
                /\ mirrors' = [mirrors EXCEPT ![m] =
                      [mr EXCEPT !.queue = Tail(@),
                                 !.ifaces = IF HeldOf(r.pubs, m, ev.iface) = {}
                                            THEN @ \ {ev.iface} ELSE @]]
           ELSE /\ pubs' = pubs \ Held(pubs, m)
                /\ mirrors' = [mirrors EXCEPT ![m] =
                      [mr EXCEPT !.queue = <<>>, !.pc = "done", !.ifaces = {}]]
    /\ UNCHANGED <<treeVars, codecVars, procVars, cur,
                   shape, owned, pc, signals, names, builds, stopped,
                   observed, failed, removed, lastSig>>

\* The stop branch and the complete branch: cleanup() removes the match, the
\* loop breaks and the task ends, dropping the handles of properties.
MirrorStop(m) ==
    /\ mirrors[m].pc = "loop"
    /\ SelectBiased(mirrors[m].queue, mirrors[m].ended, m[1] \in stopped)
          \in {"stop", "complete"}
    /\ pubs' = pubs \ Held(pubs, m)
    /\ mirrors' = [mirrors EXCEPT ![m] =
          [Past(mirrors[m]) EXCEPT !.pc = "done", !.match = FALSE, !.ifaces = {}]]
    /\ UNCHANGED <<treeVars, codecVars, procVars, cur,
                   shape, owned, pc, signals, names, builds, stopped,
                   observed, failed, removed, lastSig>>

\* ----------------------------------------------------- procedure calls

\* The methods procedures are made for, each the <arg> elements of its
\* introspection in document order:
\*   Add(in i a, in i b, out i c)
\*   (v, out s, in i anon0): an unnamed argument of unset direction first
\*   (in h a, in i b): a file descriptor, which cannot be marshalled
\*   (out i c): no argument to pass
\*   (inout i a): a direction that is neither in nor out
Methods ==
    {<<Arg(Some("a"), <<"i">>, Some("in")), Arg(Some("b"), <<"i">>, Some("in")),
       Arg(Some("c"), <<"i">>, Some("out"))>>,
     <<Arg(None, <<"v">>, None), Arg(None, <<"s">>, Some("out")),
       Arg(Some("anon0"), <<"i">>, Some("in"))>>,
     <<Arg(Some("a"), <<"h">>, Some("in")), Arg(Some("b"), <<"i">>, Some("in"))>>,
     <<Arg(Some("c"), <<"i">>, Some("out"))>>,
     <<Arg(Some("a"), <<"i">>, Some("inout"))>>}

\* What a caller passes under one name: the values written to the argument
\* before the call, oldest first.
ValSeqs ==
    {<<>>, <<VI32(2)>>, <<VI32(3)>>, <<VString("x")>>, <<VI32(2), VI32(3)>>}

\* The names a caller passes values under: of the procedure's parameters, and
\* "c", which is none of them.
CallerNames ==
    IF proc.some
    THEN {proc.x.arg_spec[k].name.x : k \in DOMAIN proc.x.arg_spec} \cup {"c"}
    ELSE {}

\* What the bus answers to a method call: an error, or the reply's arguments.
Replies ==
    {Err("org.freedesktop.DBus.Error.Failed"), Ok(<<>>), Ok(<<BInt32(5)>>),
     Ok(<<BInt32(5), BStr("hello")>>)}

\* The <arg> elements of a method, of whatever names and directions: without a
\* name, of a name twice, of a name that ends in '_', of the name an unnamed
\* argument is given.
ArgLists ==
    LET xarg == {Arg(n, <<"i">>, d) :
                    n \in {None, Some("a"), Some("a_"), Some("anon0")},
                    d \in {None, Some("in"), Some("out")}}
    IN  UNION {[1..k -> xarg] : k \in 0..MaxArgs}

\* ProxiedMethod::new for the method: on an error the method is logged and has
\* no procedure.
Register ==
    /\ proc = None
    /\ LET r == ProxiedMethodNew(method)
       IN  proc' = IF r.ok THEN Some(r.v) ELSE [some |-> FALSE, err |-> r.err]
    /\ UNCHANGED <<treeVars, codecVars, busVars, method, args, dargs, reply, ret>>

\* What the closure returns when DbusMethodArgs::new fails.
ConstructError(e) == VError("failed to construct dbus args: " \o e)

\* What the closure returns for the outcome of the method call.
CallResult(r) == IF r.ok THEN DbusMethodRet(r.v) ELSE VError("method call failed: " \o r.err)

\* One invocation of the procedure with the arguments vals: the closure given
\* to rpc::Proc::new.
Invoke(vals) ==
    /\ proc.some
    /\ args' = vals
    /\ LET d == DbusMethodArgsNew(proc.x.arg_spec, vals)
       IN  IF ~d.ok
           THEN /\ ret' = Some(ConstructError(d.err))
                /\ dargs' = None
                /\ reply' = None
           ELSE /\ dargs' = Some(d.v)
                /\ \E r \in Replies : reply' = Some(r) /\ ret' = Some(CallResult(r))
    /\ UNCHANGED <<treeVars, codecVars, busVars, method, proc>>

\* ------------------------------------------------------------ signatures

\* The one-character types the signatures below are built from.
SigLeaves == {"i", "s"}

\* The single complete types of the bus's signature grammar with containers
\* nested to depth d: a one-character type, an array of a type, a struct of
\* one or two types, a dict entry of a one-character key and a type.
RECURSIVE WellFormed(_)
WellFormed(d) ==
    IF d = 0 THEN {<<c>> : c \in SigLeaves}
    ELSE LET sub == WellFormed(d - 1)
         IN  sub \cup {<<"a">> \o t : t \in sub}
                 \cup {<<"(">> \o t \o <<")">> : t \in sub}
                 \cup {<<"(">> \o t[1] \o t[2] \o <<")">> : t \in sub \X sub}
                 \cup {<<"{">> \o <<k>> \o t \o <<"}">> : k \in SigLeaves, t \in sub}

\* The bytes strings are made of: a one-character type, the container bytes,
\* and a byte that no type has.
SigAlphabet == {"s", "a", "(", ")", "{", "}", "!"}

\* Every string of at most n bytes.
Strings(n) == UNION {[1..k -> SigAlphabet] : k \in 0..n}

\* The type attribute of an <arg> handed to from_str.
Signatures == WellFormed(MaxNest) \cup Strings(MaxSigLen)

\* DbusType::from_str(&value.typ)
FromStr ==
    /\ parsed = None
    /\ parsed' = Some(from_str(signature))
    /\ UNCHANGED <<treeVars, busVars, procVars, signature, printed, busv, decoded, encoded, again>>

\* a.typ.to_string()
PrintType ==
    /\ parsed.some
    /\ parsed.x.ok
    /\ printed = None
    /\ printed' = Some(fmt(parsed.x.v))
    /\ UNCHANGED <<treeVars, busVars, procVars, signature, parsed, busv, decoded, encoded, again>>

\* ------------------------------------------------------- codec inputs

\* The types of the values read from the bus, by signature.
CodecSignatures ==
    {<<c>> : c \in DOMAIN Leaf} \cup
    {<<"a", "i">>, <<"a", "v">>, <<"(", "i", "s", ")">>, <<"(", "i", "h", ")">>,
     <<"a", "(", "i", "s", ")">>, <<"a", "{", "s", "v", "}">>, <<"{", "s", "v", "}">>}
CodecTypes == {from_str(c).v : c \in CodecSignatures}

\* What a variant read from the bus holds.
Payloads ==
    {BInt32(5), BStr("hello"), BByte(255), [t |-> "Boolean", n |-> 0],
     BVariant(<<BStr("hello")>>),
     [t |-> "Struct", items |-> <<BInt32(5), BStr("hello")>>],
     [t |-> "Array", items |-> <<BInt32(5), BInt32(-1)>>]}

\* The sequences of at most n elements of a set.
SeqsUpTo(S, n) == UNION {[1..k -> S] : k \in 0..n}

\* The keys and values of dict entries, one after the other.
RECURSIVE Flat(_)
Flat(xs) == IF xs = <<>> THEN <<>> ELSE Head(xs).items \o Flat(Tail(xs))

\* The bus values of a type.  The iterator of an array of dict entries gives
\* the entries or, for a map of the bus library, its keys and values in turn.
RECURSIVE ValuesOf(_)
ValuesOf(ty) ==
    LET RECURSIVE Fields(_)
        Fields(elts) ==
            IF elts = <<>> THEN {<<>>}
            ELSE {<<x>> \o rest : x \in ValuesOf(Head(elts)), rest \in Fields(Tail(elts))}
    IN  CASE ty.t = "Byte" -> {BByte(255)}
          [] ty.t = "Bool" -> {[t |-> "Boolean", n |-> 0], [t |-> "Boolean", n |-> 1]}
          [] ty.t = "Int16" -> {BInt16(-1)}
          [] ty.t = "UInt16" -> {[t |-> "UInt16", n |-> 7]}
          [] ty.t = "Int32" -> {BInt32(5), BInt32(-1)}
          [] ty.t = "UInt32" -> {[t |-> "UInt32", n |-> 7]}
          [] ty.t = "Int64" -> {[t |-> "Int64", n |-> -5]}
          [] ty.t = "UInt64" -> {[t |-> "UInt64", n |-> 5]}
          [] ty.t = "Double" -> {[t |-> "Double", n |-> 2]}
          [] ty.t = "String" -> {BStr("hello")}
          [] ty.t = "ObjectPath" -> {[t |-> "ObjectPath", s |-> "/a"]}
          [] ty.t = "Signature" -> {[t |-> "Signature", s |-> "i"]}
          [] ty.t = "UnixFd" -> {[t |-> "UnixFd"]}
          [] ty.t = "Variant" -> {BVariant(<<x>>) : x \in Payloads}
          [] ty.t = "Array" ->
                LET arrays == SeqsUpTo(ValuesOf(ty.elt), MaxItems)
                IN  {[t |-> "Array", items |-> xs] : xs \in arrays} \cup
                    IF ty.elt.t = "Dict"
                    THEN {[t |-> "Array", items |-> Flat(xs)] : xs \in arrays}
                    ELSE {}
          [] ty.t = "Dict" ->
                {[t |-> "DictEntry", items |-> <<k, x>>] :
                    k \in ValuesOf(ty.key), x \in ValuesOf(ty.value)}
          [] ty.t = "Struct" -> {[t |-> "Struct", items |-> xs] : xs \in Fields(ty.elts)}

\* A variant as the iterator of RefArg may present it: holding nothing, or
\* more than one value.
OddVariants ==
    {BVariant(<<>>), BVariant(<<BInt32(5), BStr("hello")>>),
     BVariant(<<BByte(255), BVariant(<<>>), BInt32(-1)>>)}

\* A value read from the bus with its type, or only the type a caller's value
\* is to be marshalled to.
FromBus ==
    UNION {{[val |-> Some(b), typ |-> ty] : b \in ValuesOf(ty)} : ty \in CodecTypes} \cup
    {[val |-> Some(b), typ |-> [t |-> "Variant"]] : b \in OddVariants}
Targets ==
    {[val |-> None, typ |-> from_str(c).v] :
        c \in {<<"(", "i", "s", ")">>, <<"(", "s", ")">>, <<"a", "i">>}}

\* The arrays a caller passes.
CallerArrays == {VArray(xs) : xs \in SeqsUpTo({VI32(2), VString("x")}, MaxElems)}

\* dbus_value_to_netidx_value(&value) of a value read from the bus
Decode ==
    /\ busv.val.some
    /\ decoded = None
    /\ decoded' = Some(dbus_value_to_netidx_value(busv.val.x))
    /\ UNCHANGED <<treeVars, busVars, procVars, signature, parsed, printed, busv, encoded, again>>

\* netidx_value_to_dbus_value(&v, &a.typ)
Encode ==
    /\ decoded.some
    /\ encoded = None
    /\ encoded' = Some(netidx_value_to_dbus_value(decoded.x, busv.typ))
    /\ UNCHANGED <<treeVars, busVars, procVars, signature, parsed, printed, busv, decoded, again>>

\* dbus_value_to_netidx_value of the marshalled value, as the receiver reads it
DecodeAgain ==
    /\ encoded.some
    /\ encoded.x.ok
    /\ again = None
    /\ again' = Some(dbus_value_to_netidx_value(encoded.x.v))
    /\ UNCHANGED <<treeVars, busVars, procVars, signature, parsed, printed, busv, decoded, encoded>>

\* ------------------------------------------- a tree with sibling objects

\* The objects of a service whose root has the children "a" and "b", and "a"
\* the child "c", each by its object path, and the reply of Introspect for
\* each: the methods of its interface I1 in document order and the names of
\* its child nodes.
TreeObjects == {<<>>, <<"a">>, <<"b">>, <<"a", "c">>}
TreeNode(path) ==
    [methods |-> IF path \in {<<"a">>, <<"a", "c">>} THEN <<"Add">> ELSE <<"Add", "Sub">>,
     nodes |-> IF path = <<>> THEN <<Some("a"), Some("b")>>
               ELSE IF path = <<"a">> THEN <<Some("c")>>
               ELSE <<>>]
TreeMethods ==
    UNION {{<<p, TreeNode(p).methods[j]>> : j \in DOMAIN TreeNode(p).methods} :
              p \in TreeObjects}

\* The <arg> elements a method of the tree declares: arguments that
\* ProxiedMethod::new takes, or an argument whose direction it refuses.
GoodArgs == <<Arg(Some("a"), <<"i">>, Some("in")), Arg(Some("c"), <<"i">>, Some("out"))>>
BadArgs == <<Arg(Some("a"), <<"i">>, Some("inout"))>>

\* What may go wrong in one build: the objects whose Introspect call fails, and
\* what each method declares.
Faults ==
    {[bad |-> b, decl |-> d] : b \in SUBSET TreeObjects,
                               d \in [TreeMethods -> {GoodArgs, BadArgs}]}

\* A parent that fails when the build of a child fails.
ParentOk_All(kids) == \A j \in DOMAIN kids : kids[j].ok

\* .filter_map(|r| match r { Ok(o) => Some(o), Err(e) => { warn!; None } }): the
\* parent is returned whatever its children's builds returned.
ParentOk(kids) == TRUE

\* Object::publish_methods for the object at path: the methods whose
\* ProxiedMethod::new returns Ok, and the publications with their procedures.
RECURSIVE TreePublishMethods(_, _, _, _, _)
\* One turn of the filter_map closure, for the first of meths: ok is whether
\* ProxiedMethod::new and publish both succeeded.
TreePublishMethod(ok, ps, path, base, meths, f) ==
    LET name == Head(meths)
        mpath == MethodPath(base, "I1", name)
        rest == TreePublishMethods(IF ok THEN ps \cup {MethodPub(path, "I1", name, mpath)} ELSE ps,
                                   path, base, Tail(meths), f)
    IN  [pubs |-> rest.pubs,
         methods |-> IF ok THEN <<name>> \o rest.methods ELSE rest.methods]

TreePublishMethods(ps, path, base, meths, f) ==
    IF meths = <<>> THEN [pubs |-> ps, methods |-> <<>>]
    ELSE TreePublishMethod(ProxiedMethodNew(f.decl[<<path, Head(meths)>>]).ok
                              /\ CanPublish(ps, MethodPath(base, "I1", Head(meths))),
                           ps, path, base, meths, f)

\* Object::new for the object at path, with join_all over its children.  asked
\* is history: the objects whose Introspect call has returned when the
\* function returns.  The mirror that task::spawn starts for the object is that
\* of ObjectNew and is left out here.
RECURSIVE ObjectNewTree(_, _, _, _)
\* Object::new after introspect has succeeded: m is what publish_methods
\* returned, and each child is built on the publications the one before left.
ObjectNewIntrospected(path, base, f, ps, m) ==
    LET node == TreeNode(path)
        RECURSIVE Children(_, _)
        Children(j, ps1) ==
            IF j > Len(node.nodes) THEN <<>>
            ELSE LET r == ObjectNewTree(ChildPath(path, node.nodes[j]),
                                        ChildBase(base, node.nodes[j]), f, ps1)
                 IN  <<r>> \o Children(j + 1, r.pubs)
        kids == Children(1, m.pubs)
        good == SelectSeq(kids, LAMBDA r : r.ok)
        asked == {path} \cup UNION {kids[j].asked : j \in DOMAIN kids}
    IN  IF ParentOk(kids)
        THEN [ok |-> TRUE,
              pubs |-> IF kids = <<>> THEN m.pubs ELSE kids[Len(kids)].pubs,
              asked |-> asked,
              obj |-> [path |-> path, methods |-> m.methods,
                       children |-> [j \in DOMAIN good |-> good[j].obj]]]
        ELSE [ok |-> FALSE, pubs |-> ps, asked |-> asked]

ObjectNewTree(path, base, f, ps) ==
    IF path \in f.bad THEN [ok |-> FALSE, pubs |-> ps, asked |-> {path}]
    ELSE ObjectNewIntrospected(path, base, f, ps,
                               TreePublishMethods(ps, path, base, TreeNode(path).methods, f))

\* ProxiedBusName::new(con, publisher, base, name) for Foo
BuildTree ==
    /\ built = None
    /\ faults # None
    /\ built' = Some(ObjectNewTree(RootPath, Append(NetidxBase, Foo), faults, {}))
    /\ UNCHANGED <<busVars, procVars, codecVars, faults>>

\* --------------------------------------------------------- specification

InitBus(shapes) ==
    /\ shape \in shapes
    /\ owned \in SUBSET Names
    /\ pc = "start"
    /\ signals = <<>>
    /\ names = <<>>
    /\ builds = <<>>
    /\ stopped = {}
    /\ mirrors = <<>>
    /\ pubs = {}
    /\ observed = {}
    /\ failed = {}
    /\ removed = {}
    /\ lastSig = NoSig
    /\ cur = None

InitProc(methods) ==
    /\ method \in methods
    /\ proc = None
    /\ args = <<>>
    /\ dargs = None
    /\ reply = None
    /\ ret = None

InitCodec(sigs, busvs, vals) ==
    /\ signature \in sigs
    /\ parsed = None
    /\ printed = None
    /\ busv \in busvs
    /\ decoded \in vals
    /\ encoded = None
    /\ again = None

\* No value of the bus is in hand.
NoBusv == [val |-> None, typ |-> None]

\* No tree is built apart from those of the supervisor.
NoTree == faults = None /\ built = None

InitOf(shapes) == InitBus(shapes) /\ InitProc({<<>>}) /\ InitCodec({<<>>}, {NoBusv}, {None}) /\ NoTree

Next ==
    \/ Startup
    \/ HandleSignal
    \/ \E n \in Names : BusAcquire(n)
    \/ \E n \in Names : BusRelease(n)
    \/ \E n \in Names : BusTransfer(n)
    \/ BusOtherSignal
    \/ \E m \in DOMAIN mirrors : MirrorAddMatch(m)
    \/ \E m \in DOMAIN mirrors : \E i \in DataIfaces(shape) : MirrorGetAll(m, i)
    \/ \E m \in DOMAIN mirrors : \E i \in DataIfaces(shape) :
          \E name \in IfaceProps(shape, i) : MirrorPublish(m, i, name)
    \/ \E m \in DOMAIN mirrors : MirrorChange(m)
    \/ \E m \in DOMAIN mirrors : MirrorStop(m)
    \/ \E m \in DOMAIN mirrors : \E i \in DataIfaces(shape) : \E ev \in Changes(i) :
          BusPropertiesChanged(mirrors[m].dest, mirrors[m].path, ev)

\* The supervisor with rebuilds, over the layout with one mirror per tree.
Init == InitOf({"named"})
Spec == Init /\ [][Next]_vars

\* The property mirror with several interfaces and properties, and two mirrors
\* of one object path.
InitMirror == InitOf({"flat", "anon"}) /\ owned = {Foo}
NextMirror ==
    \/ Startup
    \/ HandleSignal
    \/ BusRelease(Foo)
    \/ \E m \in DOMAIN mirrors : MirrorAddMatch(m)
    \/ \E m \in DOMAIN mirrors : \E i \in DataIfaces(shape) : MirrorGetAll(m, i)
    \/ \E m \in DOMAIN mirrors : \E i \in DataIfaces(shape) :
          \E name \in IfaceProps(shape, i) : MirrorPublish(m, i, name)
    \/ \E m \in DOMAIN mirrors : MirrorChange(m)
    \/ \E m \in DOMAIN mirrors : MirrorStop(m)
    \/ \E m \in DOMAIN mirrors : \E i \in DataIfaces(shape) : \E ev \in Changes(i) :
          BusPropertiesChanged(mirrors[m].dest, mirrors[m].path, ev)
SpecMirror == InitMirror /\ [][NextMirror]_vars

\* The property mirror whose change stream may end.
NextStream == NextMirror \/ \E m \in DOMAIN mirrors : StreamEnd(m)
InitStream == InitOf({"anon"}) /\ owned = {Foo}
SpecStream == InitStream /\ [][NextStream]_vars

\* The supervisor with rebuilds and two mirrors of one object path.
InitPaths == InitOf({"named", "anon"}) /\ owned = {Foo}
NextPaths ==
    \/ Startup
    \/ HandleSignal
    \/ BusAcquire(Foo)
    \/ BusRelease(Foo)
    \/ \E m \in DOMAIN mirrors : MirrorAddMatch(m)
    \/ \E m \in DOMAIN mirrors : \E i \in DataIfaces(shape) : MirrorGetAll(m, i)
    \/ \E m \in DOMAIN mirrors : \E i \in DataIfaces(shape) :
          \E name \in IfaceProps(shape, i) : MirrorPublish(m, i, name)
    \/ \E m \in DOMAIN mirrors : MirrorChange(m)
    \/ \E m \in DOMAIN mirrors : MirrorStop(m)
    \/ \E m \in DOMAIN mirrors : \E i \in DataIfaces(shape) : \E ev \in Changes(i) :
          BusPropertiesChanged(mirrors[m].dest, mirrors[m].path, ev)
SpecPaths == InitPaths /\ [][NextPaths]_vars

\* The property mirror of a service whose property values are followed: what
\* GetAll returns and what PropertiesChanged carries are the values the
\* properties have.
InitLatest ==
    /\ InitProc({<<>>}) /\ InitCodec({<<>>}, {NoBusv}, {None}) /\ NoTree
    /\ shape = "flat"
    /\ owned = {Foo}
    /\ pc = "start"
    /\ signals = <<>>
    /\ names = <<>>
    /\ builds = <<>>
    /\ stopped = {}
    /\ mirrors = <<>>
    /\ pubs = {}
    /\ observed = {}
    /\ failed = {}
    /\ removed = {}
    /\ lastSig = NoSig
    /\ \E v \in BusVals :
         cur = Some([i \in DataIfaces("flat") |-> [name \in IfaceProps("flat", i) |-> v]])
NextLatest ==
    \/ Startup
    \/ \E m \in DOMAIN mirrors : MirrorAddMatch(m)
    \/ \E m \in DOMAIN mirrors : \E i \in DataIfaces(shape) : MirrorGetAll(m, i)
    \/ \E m \in DOMAIN mirrors : \E i \in DataIfaces(shape) :
          \E name \in IfaceProps(shape, i) : MirrorPublish(m, i, name)
    \/ \E m \in DOMAIN mirrors : MirrorChange(m)
    \/ \E m \in DOMAIN mirrors : \E i \in DataIfaces(shape) : \E ev \in Changes(i) :
          BusPropertiesChanged(mirrors[m].dest, mirrors[m].path, ev)
SpecLatest == InitLatest /\ [][NextLatest]_vars

\* The supervisor with two well-known names and a unique one.
InitTwoNames ==
    /\ InitProc({<<>>}) /\ InitCodec({<<>>}, {NoBusv}, {None}) /\ NoTree
    /\ shape = "named"
    /\ owned \in SUBSET {Foo, Bar, Uniq}
    /\ pc = "start"
    /\ signals = <<>>
    /\ names = <<>>
    /\ builds = <<>>
    /\ stopped = {}
    /\ mirrors = <<>>
    /\ pubs = {}
    /\ observed = {}
    /\ failed = {}
    /\ removed = {}
    /\ lastSig = NoSig
    /\ cur = None
NextTwoNames ==
    \/ Startup
    \/ HandleSignal
    \/ \E n \in {Foo, Bar, Uniq} : BusAcquire(n)
    \/ \E n \in {Foo, Bar, Uniq} : BusRelease(n)
    \/ \E n \in {Foo, Bar} : BusTransfer(n)
    \/ \E m \in DOMAIN mirrors : MirrorAddMatch(m)
    \/ \E m \in DOMAIN mirrors : \E i \in DataIfaces(shape) : MirrorGetAll(m, i)
    \/ \E m \in DOMAIN mirrors : \E i \in DataIfaces(shape) :
          \E name \in IfaceProps(shape, i) : MirrorPublish(m, i, name)
    \/ \E m \in DOMAIN mirrors : MirrorStop(m)
SpecTwoNames == InitTwoNames /\ [][NextTwoNames]_vars

\* The build of one tree with sibling objects.
InitTree ==
    /\ InitBus({"flat"}) /\ owned = {} /\ InitProc({<<>>})
    /\ InitCodec({<<>>}, {NoBusv}, {None})
    /\ faults \in Faults
    /\ built = None
NextTree == BuildTree
SpecTree == InitTree /\ [][NextTree]_vars

\* One procedure and its invocations.
InitMethod ==
    InitBus({"flat"}) /\ owned = {} /\ InitProc(Methods) /\ InitCodec({<<>>}, {NoBusv}, {None}) /\ NoTree
NextMethod ==
    \/ Register
    \/ \E ns \in SUBSET CallerNames : \E vals \in [ns -> ValSeqs] : Invoke(vals)
SpecMethod == InitMethod /\ [][NextMethod]_vars

\* The naming of the in-args of a method.
InitNaming ==
    InitBus({"flat"}) /\ owned = {} /\ InitProc(ArgLists) /\ InitCodec({<<>>}, {NoBusv}, {None}) /\ NoTree
NextNaming == Register
SpecNaming == InitNaming /\ [][NextNaming]_vars

\* Parsing a signature and printing the type.
InitSig ==
    InitBus({"flat"}) /\ owned = {} /\ InitProc({<<>>}) /\ InitCodec(Signatures, {NoBusv}, {None}) /\ NoTree
NextSig == FromStr \/ PrintType
SpecSig == InitSig /\ [][NextSig]_vars

\* Values through dbus_value_to_netidx_value and netidx_value_to_dbus_value.
InitValues ==
    /\ InitBus({"flat"}) /\ owned = {} /\ InitProc({<<>>})
    /\ NoTree
    /\ \/ InitCodec({<<>>}, FromBus, {None})
       \/ InitCodec({<<>>}, Targets, {Some(x) : x \in CallerArrays})
NextValues == Decode \/ Encode \/ DecodeAgain
SpecValues == InitValues /\ [][NextValues]_vars

\* ----------------------------------------------------------------- claims

MirrorsOf(b) == {m \in DOMAIN mirrors : m[1] = b}
RootBase(n) == Append(NetidxBase, n)

\* C1: once main has handled a NameOwnerChanged for N with no new owner and then
\* one with no old owner and a new owner, N's subtree is published again in
\* full: with the tree's mirrors in their loops, every property that GetAll
\* returned and every method of the root has a live publication of the new
\* tree, however the old tree's mirrors interleave with the rebuild.
C1_Republished ==
    \A n \in DOMAIN names \cap removed :
      LET b == names[n]
      IN  (\A m \in MirrorsOf(b) : mirrors[m].pc = "loop") =>
            /\ \A m \in MirrorsOf(b) : \A i \in DOMAIN mirrors[m].ga :
                 mirrors[m].ga[i] \in {"ok", "puberr"} =>
                   \A name \in IfaceProps(shape, i) :
                     \E r \in pubs : /\ r.path = PropPath(mirrors[m].base, i, name)
                                     /\ r.owner[1] = b
            /\ \E r \in pubs : /\ r.path = MethodPath(RootBase(n), "I1", "Add")
                               /\ r.owner[1] = b

C3_MatchRemoved ==
    \A m \in DOMAIN mirrors :
      (m[1] \in stopped /\ mirrors[m].pc = "done") => ~mirrors[m].match

C5_NoUniqueName ==
    /\ \A n \in DOMAIN names : n[1] # ":"
    /\ \A b \in DOMAIN builds : builds[b][1] # ":"
    /\ \A m \in DOMAIN mirrors : mirrors[m].dest[1] # ":"
    /\ \A r \in pubs : r.path[Len(NetidxBase) + 1][1] # ":"

C5_Witness ==
    /\ lastSig = [member |-> "NameOwnerChanged", name |-> Uniq, old |-> FALSE, new |-> TRUE]
    /\ Uniq \in owned
    /\ builds # <<>>

\* C6: no two live publications, of properties or of methods, of whatever
\* object, mirror or bus name, have the same path.
C6_DistinctPaths == \A r1, r2 \in pubs : r1.path = r2.path => r1 = r2

C6_Witness ==
    \E m1, m2 \in DOMAIN mirrors : \E i \in DOMAIN mirrors[m1].ga : \E r \in pubs :
      /\ m1 # m2
      /\ mirrors[m1].base = mirrors[m2].base
      /\ mirrors[m1].ga[i] = "puberr"
      /\ r.owner = m2
      /\ r.iface = i
      /\ r.path = PropPath(mirrors[m1].base, i, r.member)

\* C7: a mirror takes the PropertiesChanged signals in the order received, and
\* when it has handled one and committed the batch, each property published
\* from the snapshot that the signal lists as changed holds the decoded value.
C7_ChangeApplied ==
    [][\A m \in DOMAIN mirrors :
          (/\ mirrors[m].pc = "loop"
           /\ Len(mirrors'[m].queue) < Len(mirrors[m].queue)
           /\ mirrors'[m].pc = "loop") =>
             LET ev == Head(mirrors[m].queue)
             IN  /\ mirrors'[m].queue = Tail(mirrors[m].queue)
                 /\ \A r \in pubs :
                      (/\ r.owner = m
                       /\ r.iface = ev.iface
                       /\ r.path = PropPath(mirrors[m].base, r.iface, r.member)
                       /\ r.member \in DOMAIN ev.changed) =>
                         \E r2 \in pubs' :
                           /\ r2.owner = m
                           /\ r2.iface = r.iface
                           /\ r2.member = r.member
                           /\ r2.val = dbus_value_to_netidx_value(ev.changed[r.member])
                           /\ r.member \notin ev.inv => r2.path = r.path]_vars

C7_Witness ==
    \E m \in DOMAIN mirrors : \E r \in pubs :
      /\ mirrors[m].pc = "loop"
      /\ mirrors[m].ga["I1"] = "past"
      /\ mirrors[m].queue # <<>>
      /\ r.owner = m
      /\ r.path = PropPath(mirrors[m].base, "I1", "P")
      /\ r.val = VU32(255)

\* C8: every property publication a mirror makes, from the snapshot or from a
\* PropertiesChanged signal, has the path
\* B/N/<object path>/interfaces/<interface>/properties/<property>.
C8_PropertyPaths ==
    \A r \in pubs :
      r.kind = "prop" =>
        r.path = NetidxBase \o <<mirrors[r.owner].dest>> \o mirrors[r.owner].path
                 \o <<"interfaces", r.iface, "properties", r.member>>

\* The in-args of the procedure, and what DbusMethodArgs::new makes of the k-th
\* given the arguments of the latest invocation.
InNames == [k \in DOMAIN proc.x.arg_spec |-> proc.x.arg_spec[k].name.x]
Lacks(k) == InNames[k] \notin DOMAIN args
Empty(k) == ~Lacks(k) /\ args[InNames[k]] = <<>>
Given(k) == args[InNames[k]][Len(args[InNames[k]])]
Unfit(k) ==
    /\ ~Lacks(k) /\ ~Empty(k)
    /\ ~netidx_value_to_dbus_value(Given(k), proc.x.arg_spec[k].typ).ok
Invoked == proc.some /\ ret.some

\* C9, as claimed: an invocation whose arguments lack the name of an in-arg
\* returns the error "failed to construct dbus args: missing argument", one
\* that has the name with no value returns "... empty argument", and neither
\* issues a bus call.
C9_MissingOrEmpty ==
    Invoked =>
      /\ (\E k \in DOMAIN InNames : Lacks(k)) =>
            /\ ret.x = VError("failed to construct dbus args: missing argument")
            /\ dargs = None
      /\ (\E k \in DOMAIN InNames : Empty(k)) =>
            /\ ret.x = VError("failed to construct dbus args: empty argument")
            /\ dargs = None

\* C9, amended: the first in-arg, in the order of declaration, that is lacking,
\* empty or not marshallable decides: no bus call is issued, and the error is
\* "... missing argument" if the name is lacking and "... empty argument" if it
\* has no value.
C9_FirstFailure ==
    Invoked =>
      \A k \in DOMAIN InNames :
        (/\ Lacks(k) \/ Empty(k) \/ Unfit(k)
         /\ \A j \in 1..(k - 1) : ~Lacks(j) /\ ~Empty(j) /\ ~Unfit(j)) =>
           /\ dargs = None
           /\ Lacks(k) => ret.x = VError("failed to construct dbus args: missing argument")
           /\ Empty(k) => ret.x = VError("failed to construct dbus args: empty argument")

C9_Witness ==
    /\ Invoked
    /\ Len(InNames) = 2
    /\ Empty(1)
    /\ Lacks(2)
    /\ ret.x = VError("failed to construct dbus args: empty argument")
    /\ dargs = None

\* The arguments the method declares with direction in or with none.
DeclaredIn == SelectSeq(method, LAMBDA a : a.direction # Some("out"))

\* C10: the bus call of an invocation carries one value per in-arg (direction
\* in or unset, never out), in the order of declaration, each the value given
\* under the in-arg's name marshalled to the in-arg's own signature; the body
\* and the value returned do not depend on arguments of other names.
C10_CallBody ==
    (Invoked /\ dargs.some) =>
      /\ Len(dargs.x) = Len(DeclaredIn)
      /\ \A k \in DOMAIN dargs.x :
           /\ ~Lacks(k) /\ ~Empty(k)
           /\ Ok(dargs.x[k]) =
                 netidx_value_to_dbus_value(Given(k), from_str(DeclaredIn[k].typ).v)
      /\ ret.x = IF reply.x.ok THEN DbusMethodRet(reply.x.v)
                 ELSE VError("method call failed: " \o reply.x.err)

C10_Witness ==
    /\ Invoked
    /\ Len(method) = 3
    /\ "c" \in DOMAIN args
    /\ dargs = Some(<<BInt32(2), BInt32(3)>>)
    /\ Len(args["b"]) = 2
    /\ ret.x = VI32(5)

\* C11: every well-formed signature of one type -- one-character types, arrays,
\* structs and dict entries nested in whatever combination and position --
\* parses, and printing the parsed type gives the signature back.
C11_PrintParse ==
    (signature \in WellFormed(MaxNest) /\ parsed.some) =>
      /\ parsed.x.ok
      /\ printed.some => printed.x = signature

\* The signatures C12 lists: "", "{", "{s}", "{sss}", "()", "a", "aa".
Malformed ==
    {<<>>, <<"{">>, <<"{", "s", "}">>, <<"{", "s", "s", "s", "}">>, <<"(", ")">>,
     <<"a">>, <<"a", "a">>}

\* C12: parsing fails for the empty string, for "{", for a dict entry of one
\* type and of three types, for the empty struct, and for an array prefix
\* with no element type.
C12_Rejected ==
    (signature \in Malformed /\ parsed.some) => ~parsed.x.ok

C12_Witness ==
    /\ signature = <<"{", "s", "s", "s", "}">>
    /\ parsed = Some(Err("dict must contain exactly two types"))

\* C13: from_str fails when bytes remain after the first complete type, and
\* when the string has a byte that no type has, wherever it is.
C13_WholeString ==
    (parsed.some /\ parsed.x.ok) =>
      /\ len(parsed.x.v) = Len(signature)
      /\ \A j \in DOMAIN signature : signature[j] # "!"

\* C14: reading a bus value to a pub/sub value maps Byte, UInt16 and UInt32 to
\* an unsigned 32-bit integer, Int16 and Int32 to a signed 32-bit integer, Int64
\* and UInt64 to the 64-bit integers, Double to a 64-bit float, a boolean to
\* true or false, strings, object paths and signatures to a string, a file
\* descriptor to the string "<unix-fd>", and an array, a struct or a dict entry
\* to an array of the read elements, as many and in the same order (a dict
\* entry becomes the pair of its key and its value).
RECURSIVE Reads(_, _)
Reads(b, v) ==
    CASE b.t \in {"Byte", "UInt16", "UInt32"} -> v = [k |-> "U32", n |-> b.n]
      [] b.t \in {"Int16", "Int32"} -> v = [k |-> "I32", n |-> b.n]
      [] b.t = "Int64" -> v = [k |-> "I64", n |-> b.n]
      [] b.t = "UInt64" -> v = [k |-> "U64", n |-> b.n]
      [] b.t = "Double" -> v = [k |-> "F64", n |-> b.n]
      [] b.t = "Boolean" -> v = [k |-> IF b.n = 1 THEN "True" ELSE "False"]
      [] b.t \in {"String", "ObjectPath", "Signature"} -> v = [k |-> "String", s |-> b.s]
      [] b.t = "UnixFd" -> v = [k |-> "String", s |-> "<unix-fd>"]
      [] b.t \in {"Array", "Struct", "DictEntry"} ->
            /\ v.k = "Array"
            /\ Len(v.items) = Len(b.items)
            /\ b.t = "DictEntry" => Len(v.items) = 2
            /\ \A j \in DOMAIN b.items : Reads(b.items[j], v.items[j])
      [] b.t = "Variant" -> TRUE
C14_ValueMapping ==
    (busv.val.some /\ decoded.some) => Reads(busv.val.x, decoded.x)
\* An array of two structs, each an Int32 and a String, has been read.
C14_Witness ==
    /\ busv.val.some /\ decoded.some
    /\ busv.val.x.t = "Array" /\ Len(busv.val.x.items) = 2
    /\ busv.val.x.items[1] = [t |-> "Struct", items |-> <<BInt32(-1), BStr("hello")>>]
    /\ decoded.x.items[1] = VArray(<<VI32(-1), VString("hello")>>)

\* C15: a variant that holds nothing reads as null, a variant that holds one
\* value reads as that value, through any depth of nested variants, and a
\* variant that holds two or more values reads as the array of them, in order.
RECURSIVE Inner(_)
Inner(b) == IF b.t = "Variant" /\ Len(b.items) = 1 THEN Inner(b.items[1]) ELSE b
C15_Variant ==
    (busv.val.some /\ busv.val.x.t = "Variant" /\ decoded.some) =>
        LET b == busv.val.x
            in == Inner(b)
        IN  /\ Len(b.items) = 0 => decoded.x = VNull
            /\ Len(b.items) = 1 =>
                  /\ in.t # "Variant" => Reads(in, decoded.x)
                  /\ in.t = "Variant" /\ Len(in.items) = 0 => decoded.x = VNull
            /\ Len(b.items) >= 2 =>
                  /\ decoded.x.k = "Array"
                  /\ Len(decoded.x.items) = Len(b.items)
                  /\ \A j \in DOMAIN b.items :
                        decoded.x.items[j] = dbus_value_to_netidx_value(b.items[j])
\* A variant that holds a variant that holds a string has been read as the
\* string.
C15_Witness ==
    /\ busv.val = Some(BVariant(<<BVariant(<<BStr("hello")>>)>>))
    /\ decoded = Some(VString("hello"))

\* C16: marshalling an array to a struct of n types succeeds only when the
\* array has exactly n elements, and then its i-th element is marshalled to the
\* i-th type.
C16_StructArity ==
    (busv.val = None /\ busv.typ.t = "Struct" /\ encoded.some /\ encoded.x.ok) =>
        /\ Len(decoded.x.items) = Len(busv.typ.elts)
        /\ encoded.x.v.t = "Struct"
        /\ \A j \in DOMAIN busv.typ.elts :
              Ok(encoded.x.v.items[j]) =
                netidx_value_to_dbus_value(decoded.x.items[j], busv.typ.elts[j])

\* C17: for a bus value of a type that holds no file descriptor, marshalling
\* what was read of it back to its type succeeds, and what is read of the
\* marshalled value is what was read of the value.
RECURSIVE NoFd(_)
NoFd(ty) ==
    CASE ty.t = "UnixFd" -> FALSE
      [] ty.t = "Array" -> NoFd(ty.elt)
      [] ty.t = "Dict" -> NoFd(ty.key) /\ NoFd(ty.value)
      [] ty.t = "Struct" -> \A j \in DOMAIN ty.elts : NoFd(ty.elts[j])
      [] OTHER -> TRUE
C17_RoundTrip ==
    (/\ busv.val.some
     /\ busv.typ \in CodecTypes /\ NoFd(busv.typ)
     /\ busv.val.x \in ValuesOf(busv.typ)
     /\ encoded.some) =>
        /\ encoded.x.ok
        /\ again.some => again.x = decoded.x

\* C18: when the snapshot of a mirror is complete and GetAll, or the publishing
\* of its reply, has failed for one of the object's interfaces, the mirror is in
\* its loop and every property of every interface whose snapshot succeeded is
\* published by it.
C18_OtherInterfaces ==
    \A m \in DOMAIN mirrors :
      LET mr == mirrors[m]
      IN  (/\ \A i \in DOMAIN mr.ga : mr.ga[i] \in {"ok", "buserr", "puberr"}
           /\ \E i \in DOMAIN mr.ga : mr.ga[i] \in {"buserr", "puberr"}) =>
            /\ mr.pc = "loop"
            /\ \A i \in DOMAIN mr.ga : mr.ga[i] = "ok" =>
                  /\ i \in mr.ifaces
                  /\ \A name \in IfaceProps(shape, i) :
                        \E r \in pubs : /\ r.owner = m
                                        /\ r.kind = "prop"
                                        /\ r.iface = i
                                        /\ r.member = name
\* GetAll has failed for I2 and both properties of I1 are published.
C18_Witness ==
    \E m \in DOMAIN mirrors :
      /\ shape = "flat"
      /\ mirrors[m].pc = "loop"
      /\ mirrors[m].ga = [i \in {"I1", "I2"} |-> IF i = "I1" THEN "ok" ELSE "buserr"]
      /\ {r.member : r \in HeldOf(pubs, m, "I1")} = {"P", "Q"}

\* C19: in the loop of a mirror the stop signal has priority over the change
\* stream: a mirror that takes a step when its stop signal has fired and a
\* change is pending removes its match and ends, and the change is not applied.
MirrorSteps(m) ==
    /\ mirrors'[m] # mirrors[m]
    /\ Len(mirrors'[m].queue) <= Len(mirrors[m].queue)
C19_StopFirst ==
    [][\A m \in DOMAIN mirrors :
         (/\ mirrors[m].pc = "loop"
          /\ m[1] \in stopped
          /\ mirrors[m].queue # <<>>
          /\ m \in DOMAIN mirrors'
          /\ MirrorSteps(m)) =>
            /\ mirrors'[m].pc = "done"
            /\ ~mirrors'[m].match
            /\ pubs' = pubs \ Held(pubs, m)]_vars

\* C20: a mirror in its loop whose change stream has ended and is drained,
\* and whose stop signal has not fired, can take the step that removes its
\* match and ends it.
C20_StreamEndExits ==
    \A m \in DOMAIN mirrors :
      (/\ mirrors[m].pc = "loop"
       /\ mirrors[m].ended
       /\ mirrors[m].queue = <<>>
       /\ m[1] \notin stopped) => ENABLED MirrorStop(m)

\* C21: on every path by which a mirror that has installed its match ends,
\* the failure of a publication while it handles a change among them, the
\* match is removed from the connection when the mirror ends.
C21_EndRemovesMatch ==
    [][\A m \in DOMAIN mirrors :
         (/\ m \in DOMAIN mirrors'
          /\ mirrors[m].match
          /\ mirrors[m].pc # "done"
          /\ mirrors'[m].pc = "done") => ~mirrors'[m].match]_vars

\* C22: a PropertiesChanged signal that a mirror handles, for an interface
\* whose snapshot it took, leaves each property the signal lists as changed
\* published by the mirror with the signal's value, also when the property was
\* invalidated by an earlier signal, however many properties the interface has.
C22_ChangedIsPublished ==
    [][\A m \in DOMAIN mirrors :
         (/\ m \in DOMAIN mirrors'
          /\ mirrors[m].pc = "loop"
          /\ mirrors[m].queue # <<>>
          /\ MirrorSteps(m)
          /\ mirrors'[m].pc = "loop"
          /\ Head(mirrors[m].queue).iface \in mirrors[m].snap) =>
            LET ev == Head(mirrors[m].queue)
            IN  \A name \in DOMAIN ev.changed :
                  \E r \in pubs' :
                    /\ r.owner = m
                    /\ r.iface = ev.iface
                    /\ r.member = name
                    /\ r.val = dbus_value_to_netidx_value(ev.changed[name])]_vars

\* C23: after ProxiedMethod::new every in-arg has a name and no two in-args
\* have the same name: the k-th in-arg without a name starts from anon<k>,
\* counting from 0, an in-arg with a name from that name, and each gets the
\* fewest underscores appended that make its name differ from the names of
\* the in-args before it.  The naming ends for every list of arguments.
RECURSIVE Under(_, _)
Under(base, k) == IF k = 0 THEN base ELSE Under(base, k - 1) \o "_"
Unnamed(ins, j) == Cardinality({k \in 1..(j - 1) : ~ins[k].name.some})
C23_DistinctNames ==
    proc.some =>
      LET ins == DeclaredIn
          out == proc.x.arg_spec
          base(j) == IF ins[j].name.some THEN ins[j].name.x
                     ELSE "anon" \o ToString(Unnamed(ins, j))
      IN  /\ Len(out) = Len(ins)
          /\ \A j \in DOMAIN out : out[j].name.some
          /\ \A j, k \in DOMAIN out : j # k => out[j].name.x # out[k].name.x
          /\ \A j \in DOMAIN out :
                \E u \in 0..Len(ins) :
                  /\ out[j].name.x = Under(base(j), u)
                  /\ \A w \in 0..(u - 1) :
                        \E k \in 1..(j - 1) : out[k].name.x = Under(base(j), w)
\* Three in-args named a, a and a_ have become a, a_ and a__.
C23_Witness ==
    /\ proc.some
    /\ Len(method) = 3
    /\ [j \in 1..3 |-> method[j].name] = <<Some("a"), Some("a"), Some("a_")>>
    /\ Len(proc.x.arg_spec) = 3
    /\ [j \in 1..3 |-> proc.x.arg_spec[j].name.x] = <<"a", "a_", "a__">>

\* C24: handling a NameOwnerChanged signal that has an old and a new owner, or
\* that is for a unique name and has a new owner, changes neither main's map
\* nor any tree; handling one without a new owner removes the entry of the
\* signal's name, and no other entry, and touches no other tree.
Handles(up) == pc = "loop" /\ signals # <<>> /\ up = Head(signals) /\ signals' = Tail(signals)
OfBuild(ps, b) == {r \in ps : r.owner[1] = b}
C24_OnlyTheNamed ==
    [][\A up \in {NameOwnerChanged(n, old, new) :
                    n \in {Foo, Bar, Uniq}, old \in BOOLEAN, new \in BOOLEAN} :
         Handles(up) =>
           /\ (up.new /\ (up.old \/ StartsWithColon(up.name))) =>
                 UNCHANGED <<names, builds, stopped, mirrors, pubs>>
           /\ ~up.new =>
                 /\ DOMAIN names' = DOMAIN names \ {up.name}
                 /\ \A n \in DOMAIN names' : names'[n] = names[n]
                 /\ \A n \in DOMAIN names' : OfBuild(pubs', names[n]) = OfBuild(pubs, names[n])
                 /\ \A n \in DOMAIN names' : names[n] \in stopped' <=> names[n] \in stopped
                 /\ UNCHANGED <<mirrors, builds>>]_vars
\* The loss of Foo has been handled, and Bar has its entry and its tree.
C24_Witness ==
    /\ lastSig = NameOwnerChanged(Foo, TRUE, FALSE)
    /\ DOMAIN names = {Bar}
    /\ names[Bar] \notin stopped
    /\ stopped # {}
    /\ OfBuild(pubs, names[Bar]) # {}

\* C25: while a tree is built, a method that cannot be registered and a child
\* whose introspection fails prevent neither the registration of the other
\* methods, nor the build of the sibling children, nor the return of the
\* parent; the builder returns when every child of every object it built has
\* been asked for its introspection; only the failure of the root's
\* introspection makes the build fail.
Prefixes(path) == {SubSeq(path, 1, k) : k \in 0..(Len(path) - 1)}
Asked(f) == {p \in TreeObjects : Prefixes(p) \cap f.bad = {}}
RECURSIVE Objects(_)
Objects(o) == {o} \cup UNION {Objects(o.children[j]) : j \in DOMAIN o.children}
C25_BuildContinues ==
    built.some =>
      /\ built.x.ok <=> RootPath \notin faults.bad
      /\ built.x.asked = Asked(faults)
      /\ built.x.ok =>
            /\ {o.path : o \in Objects(built.x.obj)} = Asked(faults) \ faults.bad
            /\ \A o \in Objects(built.x.obj) :
                  LET declared == TreeNode(o.path).methods
                  IN  /\ o.methods =
                           SelectSeq(declared, LAMBDA n : faults.decl[<<o.path, n>>] = GoodArgs)
                      /\ \A j \in DOMAIN o.methods :
                            \E r \in built.x.pubs :
                              /\ r.kind = "method"
                              /\ r.member = o.methods[j]
                              /\ r.owner = o.path
\* The introspection of "a" and the registration of the root's method Add have
\* failed: the root is returned with its method Sub and its child "b".
C25_Witness ==
    /\ built.some /\ built.x.ok
    /\ faults.bad = {<<"a">>}
    /\ faults.decl[<<RootPath, "Add">>] = BadArgs
    /\ built.x.obj.methods = <<"Sub">>
    /\ Len(built.x.obj.children) = 1
    /\ built.x.obj.children[1].path = <<"b">>
    /\ built.x.obj.children[1].methods = <<"Add", "Sub">>

\* C26: a tree is built once per period of ownership: when main handles a
\* NameOwnerChanged that announces the first owner of a name that has an entry
\* in its map, it builds no second tree, and the entry, the tree and its
\* publications stay as they are.
C26_BuiltOnce ==
    [][\A n \in DOMAIN names :
         Handles(NameOwnerChanged(n, FALSE, TRUE)) =>
           UNCHANGED <<names, builds, stopped, mirrors, pubs>>]_vars

\* C27: the match is installed before GetAll is called, so no signal sent
\* after it is lost: a mirror in its loop that has nothing left in its stream
\* publishes, for every property it publishes of an interface whose snapshot
\* succeeded, the value the property has on the bus.
C27_LatestValue ==
    \A m \in DOMAIN mirrors :
      (cur.some /\ mirrors[m].pc = "loop" /\ mirrors[m].queue = <<>>) =>
        \A r \in Held(pubs, m) :
          (r.kind = "prop" /\ r.iface \in mirrors[m].snap) =>
            r.val = dbus_value_to_netidx_value(cur.x[r.iface][r.member])
\* The mirror publishes for P a value that P took after GetAll was answered.
C27_Witness ==
    \E m \in DOMAIN mirrors : \E r \in Held(pubs, m) :
      /\ cur.some /\ mirrors[m].pc = "loop" /\ mirrors[m].queue = <<>>
      /\ r.kind = "prop" /\ r.iface = "I1" /\ r.member = "P"
      /\ mirrors[m].got["I1"].some
      /\ mirrors[m].got["I1"].x["P"] # cur.x["I1"]["P"]
      /\ r.val = dbus_value_to_netidx_value(cur.x["I1"]["P"])

====
